---- MODULE Spec2Model ----
(***************************************************************************)
(* Model of the environment core of rust-gurobi (src/src/env/mod.rs, with  *)
(* the parameter protocol instances of src/src/env.rs): an owner record    *)
(* (EnvRep) around a native GRBenv handle, shared by reference counting    *)
(* (Rc) between Env values and Models, the checked native calls and the    *)
(* translation of their status codes into errors.                          *)
(*                                                                         *)
(* src/src/env.rs is the earlier version of the same subsystem, in which   *)
(* Env is not Clone and a Model borrows it; the model follows the          *)
(* reference-counted Env of mod.rs and takes from env.rs the instances of  *)
(* the parameter protocol for the three families.                          *)
(*                                                                         *)
(* Every public operation is one action: the calls are blocking and the    *)
(* values are not shared between threads (Rc is not Send), so operations   *)
(* never interleave.  The native calls an operation issues are recorded,   *)
(* in order, in last.calls.                                                *)
(***************************************************************************)
EXTENDS Integers, Sequences, FiniteSets, TLC

\* ---- bounds of the model
MaxHandles == 2      \* handles the native library can hand out
MaxShare == 2        \* largest reference count of one owner record
MaxStrLen == 2       \* longest caller-supplied string
MaxRecs == 2         \* owner records ever built

\* ---- program constants
Null == 0            \* null_mut()
NUL == 0             \* the terminator byte of a C string

Chars == {NUL, 1}
ErrCodes == {1, 2}                 \* non-zero native status codes
Status == {0} \cup ErrCodes
Handles == 1..MaxHandles
Ptrs == {Null} \cup Handles

Strings == UNION {[1..k -> Chars] : k \in 0..MaxStrLen}

\* ---- parameter identifiers, one representative per family
IntParams == {"IISMethod"}
DoubleParams == {"TimeLimit"}
StringParams == {"LogFile"}
ParamIds == IntParams \cup DoubleParams \cup StringParams

IntVals == {0, 1}
DoubleVals == {0, 1}
StrVals == {s \in Strings : \A i \in 1..Len(s) : s[i] # NUL}

\* P::Out: the public values of a parameter's family
OutVals(p) ==
  IF p \in IntParams THEN IntVals
  ELSE IF p \in DoubleParams THEN DoubleVals
  ELSE Strings

\* what the native library can hold for a parameter
NativeVals(p) ==
  IF p \in IntParams THEN IntVals
  ELSE IF p \in DoubleParams THEN DoubleVals
  ELSE StrVals

\* ---- String Marshalling
HasNul(s) == \E i \in 1..Len(s) : s[i] = NUL

\* CString::new: fails on an interior NUL, else appends the terminator
CStringNew(s) ==
  IF HasNul(s) THEN [ok |-> FALSE, buf |-> <<>>]
  ELSE [ok |-> TRUE, buf |-> Append(s, NUL)]

RECURSIVE UntilNul(_)
\* the bytes of a C buffer before its first terminator (how C reads it)
UntilNul(buf) ==
  IF buf = <<>> \/ Head(buf) = NUL THEN <<>>
  ELSE <<Head(buf)>> \o UntilNul(Tail(buf))

\* util::from_c_str: decode a native text buffer
FromCStr(buf) == UntilNul(buf)

\* capacity of the scratch buffer of a string get
BufCap == MaxStrLen + 2

\* util::Init::init(): the fresh value buffer of a get
InitBuf(p) ==
  IF p \in StringParams THEN [i \in 1..BufCap |-> NUL] ELSE 0

\* what the native getter leaves in the buffer for a stored value
WriteBuf(p, buf, v) ==
  IF p \in StringParams
    THEN [i \in 1..BufCap |-> IF i <= Len(v) THEN v[i] ELSE NUL]
    ELSE v

\* util::Into::into: buffer to public value
BufInto(p, buf) == IF p \in StringParams THEN FromCStr(buf) ELSE buf

GetResultFresh(p, value) == BufInto(p, InitBuf(p))

\* Env::get, its last line: Ok(util::Into::into(value))
GetResult(p, value) == BufInto(p, value)

\* util::FromRaw::from: public value to the setter's native argument, a
\* pass-through for the numeric families and an encoding for the string
\* family.  It returns the raw value and no Result: a text that cannot be
\* encoded leaves it no way but to abort, as Env::message does.
ToRawTo(p, v) ==
  IF p \in StringParams THEN CStringNew(v) ELSE [ok |-> TRUE, buf |-> v]

\* the value the native setter stores from its argument
RawStored(p, raw) == IF p \in StringParams THEN UntilNul(raw) ELSE raw

VARIABLES
  grb,      \* the native library: per handle, its state and its parameters
  nfree,    \* per handle, the GRBfreeenv calls issued on it
  reps,     \* the owner records (EnvRep inside Rc), in order of construction
  last      \* the operation that ran last: arguments, native calls, result

vars == <<grb, nfree, reps, last>>

DefaultParams ==
  [p \in ParamIds |-> IF p \in StringParams THEN <<>> ELSE 0]

NoHandle == [st |-> "unused", params |-> DefaultParams]

\* a handle is valid memory from its load to its free
Valid(h) == h # Null /\ grb[h].st \in {"live", "partial"}

\* the memory of a handle is gone once GRBfreeenv ran on it
Freed(h) == h # Null /\ grb[h].st = "freed"

Unused == {h \in Handles : grb[h].st = "unused"}
Fresh == CHOOSE h \in Unused : \A k \in Unused : h <= k

\* one native call as last.calls records it: entry point, handle, status,
\* and whether the handle had been freed when the call was issued
Call(fn, h, st) == [fn |-> fn, h |-> h, st |-> st, freed |-> Freed(h)]

\* ---- results
Ok == [kind |-> "Ok", code |-> 0, msg |-> 0]
EncodingError == [kind |-> "EncodingError", code |-> 0, msg |-> 0]
Panic == [kind |-> "Panic", code |-> 0, msg |-> 0]
ModelError == [kind |-> "ModelError", code |-> 0, msg |-> 0]

RECURSIVE Diag(_, _)
\* the diagnostic the library holds for handle h after the calls of the
\* running operation: that of the latest failed call on h (its code stands
\* for its text); 0 is whatever an earlier operation left
Diag(calls, h) ==
  IF calls = <<>> THEN 0
  ELSE LET c == calls[Len(calls)]
       IN IF c.h = h /\ c.st # 0 THEN c.st
          ELSE Diag(SubSeq(calls, 1, Len(calls) - 1), h)

\* get_error_msg(env): GRBgeterrormsg on env, after the calls so far
GetErrorMsg(calls, h) ==
  [calls |-> Append(calls, Call("GRBgeterrormsg", h, 0)), msg |-> Diag(calls, h)]

\* Error::FromAPI(message, error)
FromAPI(msg, error) == [kind |-> "ApiError", code |-> error, msg |-> msg]

LoadCheckedUnchecked(fn, h, st) ==
  [calls |-> <<Call(fn, h, st)>>, res |-> Ok, ok |-> TRUE]

\* Env::new / Env::new_client after the load call returned st with handle h:
\* if error != 0 { return Err(Error::FromAPI(get_error_msg(env), error)) }
LoadChecked(fn, h, st) ==
  LET c == <<Call(fn, h, st)>>
      q == GetErrorMsg(c, h)
  IN IF st # 0 THEN [calls |-> q.calls, res |-> FromAPI(q.msg, st), ok |-> FALSE]
     ELSE [calls |-> c, res |-> Ok, ok |-> TRUE]

CheckedLateQuery(fn, h, st) ==
  LET c == <<Call(fn, h, st)>>
      q == GetErrorMsg(Append(c, Call("GRBmsg", h, 0)), h)
  IN IF st # 0 THEN [calls |-> q.calls, res |-> FromAPI(q.msg, st)]
     ELSE [calls |-> c, res |-> Ok]

\* a native call on self.0.ptr through Env::check_apicall: on a non-zero
\* status, error_from_api builds the error from get_error_msg(self.0.ptr)
Checked(fn, h, st) ==
  LET c == <<Call(fn, h, st)>>
      q == GetErrorMsg(c, h)
  IN IF st # 0 THEN [calls |-> q.calls, res |-> FromAPI(q.msg, st)]
     ELSE [calls |-> c, res |-> Ok]

\* the counts an operation found: owner records built, and of its own
\* record the reference count, the holders and whether an Env was dropped
NoPre == [nrecs |-> 0, strong |-> 0, envs |-> 0, models |-> 0, dropped |-> FALSE]
Pre(r) == [nrecs |-> Len(reps), strong |-> reps[r].strong,
           envs |-> reps[r].envs, models |-> reps[r].models,
           dropped |-> reps[r].dropped]
PreNew == [NoPre EXCEPT !.nrecs = Len(reps)]

NoWritten == [p \in ParamIds |-> <<>>]

\* Env::from_raw: Env(Rc::new(EnvRep { ptr: ptr }))
FromRaw(ptr) ==
  [ptr |-> ptr, wrapped |-> ptr, strong |-> 1, envs |-> 1, models |-> 0,
   dropped |-> FALSE, written |-> NoWritten]

Init ==
  /\ grb = [h \in Handles |-> NoHandle]
  /\ nfree = [h \in Handles |-> 0]
  /\ reps = <<>>
  /\ last = [op |-> "init", rec |-> 0, bad |-> {}, pre |-> NoPre, param |-> "",
             arg |-> <<>>, val |-> <<>>, calls |-> <<>>, res |-> Ok]

\* the positions of the string arguments that hold a terminator byte
BadArgs(args) == {i \in 1..Len(args) : HasNul(args[i])}

\* what last records of an operation: the record it ran on (0: none), its
\* string arguments' BadArgs, the counts before it, its native calls in
\* order and its result
Op(op, r, args, pre, calls, res) ==
  [op |-> op, rec |-> r, bad |-> BadArgs(args), pre |-> pre, param |-> "",
   arg |-> <<>>, val |-> <<>>, calls |-> calls, res |-> res]

\* the outcomes of a load call: <<status, a handle was allocated>>.  A failed
\* load may leave a partially constructed handle behind or none.
LoadOutcomes == {<<0, TRUE>>} \cup (ErrCodes \X BOOLEAN)

\* the library after a load call wrote handle h with status st
Loaded(h, st) ==
  IF h = Null THEN grb
  ELSE [grb EXCEPT ![h] = [st |-> IF st = 0 THEN "live" ELSE "partial",
                           params |-> DefaultParams]]

\* the body shared by Env::new and Env::new_client from the load call on
LoadResult(op, fn, args, st, alloc) ==
  LET h == IF alloc THEN Fresh ELSE Null
      chk == LoadChecked(fn, h, st)
  IN /\ alloc => Unused # {}
     /\ st = 0 => Len(reps) < MaxRecs
     /\ grb' = Loaded(h, st)
     /\ UNCHANGED nfree
     /\ IF ~chk.ok
          THEN /\ reps' = reps
               /\ last' = Op(op, 0, args, PreNew, chk.calls, chk.res)
          ELSE /\ reps' = Append(reps, FromRaw(h))
               /\ last' = Op(op, Len(reps) + 1, args, PreNew, chk.calls, chk.res)

\* Env::new(logfilename)
New(logfilename, st, alloc) ==
  IF ~CStringNew(logfilename).ok
    THEN /\ last' = Op("new", 0, <<logfilename>>, PreNew, <<>>, EncodingError)
         /\ UNCHANGED <<grb, nfree, reps>>
    ELSE LoadResult("new", "GRBloadenv", <<logfilename>>, st, alloc)

NewClientPasswordUnchecked(logfilename, computeserver, password, st, alloc) ==
  IF ~CStringNew(logfilename).ok \/ ~CStringNew(computeserver).ok
    THEN /\ last' = Op("new_client", 0, <<logfilename, computeserver, password>>,
                       PreNew, <<>>, EncodingError)
         /\ UNCHANGED <<grb, nfree, reps>>
    ELSE LoadResult("new_client", "GRBloadclientenv",
                    <<logfilename, computeserver, password>>, st, alloc)

\* Env::new_client(logfilename, computeserver, port, password, priority, timeout)
NewClient(logfilename, computeserver, password, st, alloc) ==
  IF ~CStringNew(logfilename).ok \/ ~CStringNew(computeserver).ok
       \/ ~CStringNew(password).ok
    THEN /\ last' = Op("new_client", 0, <<logfilename, computeserver, password>>,
                       PreNew, <<>>, EncodingError)
         /\ UNCHANGED <<grb, nfree, reps>>
    ELSE LoadResult("new_client", "GRBloadclientenv",
                    <<logfilename, computeserver, password>>, st, alloc)

\* the Env values a caller holds
Held == {r \in 1..Len(reps) : reps[r].envs > 0}

RcCloneNoCount(rec) == rec

\* Rc::clone
RcClone(rec) == [rec EXCEPT !.strong = @ + 1]

\* #[derive(Clone)] for Env
Clone(r) ==
  /\ r \in Held
  /\ reps[r].strong < MaxShare
  /\ reps' = [reps EXCEPT ![r] = [RcClone(@) EXCEPT !.envs = @ + 1]]
  /\ last' = Op("clone", r, <<>>, Pre(r), <<>>, Ok)
  /\ UNCHANGED <<grb, nfree>>

\* GRBfreeenv(h)
GRBfreeenv(g, h) ==
  IF h = Null THEN g
  ELSE [g EXCEPT ![h] = [st |-> "freed", params |-> DefaultParams]]

RcDropsValueAlways(rec) == TRUE

\* Rc<EnvRep>: the value is dropped when the last strong reference goes
RcDropsValue(rec) == rec.strong = 1

\* Drop for EnvRep, after GRBfreeenv(self.ptr): self.ptr = null_mut()
EnvRepDrop(rec) == [rec EXCEPT !.strong = @ - 1, !.ptr = Null]

\* dropping one share of record r (rec is the record without the holder):
\* Rc decrements, and EnvRep::drop runs when the count reaches zero
DropShare(r, rec) ==
  IF RcDropsValue(rec)
    THEN /\ reps' = [reps EXCEPT ![r] = EnvRepDrop(rec)]
         /\ grb' = GRBfreeenv(grb, rec.ptr)
         /\ nfree' = IF rec.ptr = Null THEN nfree
                     ELSE [nfree EXCEPT ![rec.ptr] = IF @ < 2 THEN @ + 1 ELSE @]
    ELSE /\ reps' = [reps EXCEPT ![r] = [rec EXCEPT !.strong = @ - 1]]
         /\ UNCHANGED <<grb, nfree>>

\* the native calls of DropShare
DropCalls(rec) ==
  IF RcDropsValue(rec) THEN <<Call("GRBfreeenv", rec.ptr, 0)>> ELSE <<>>

\* an Env value goes out of scope
DropEnv(r) ==
  /\ r \in Held
  /\ LET rec == [reps[r] EXCEPT !.envs = @ - 1, !.dropped = TRUE]
     IN /\ DropShare(r, rec)
        /\ last' = Op("drop", r, <<>>, Pre(r), DropCalls(rec), Ok)

\* the strings tried as names, paths and log lines: one byte, valid or not
Names == {s \in Strings : Len(s) = 1}

\* the library after a call on h returned st; ps are the parameters a
\* successful call leaves.  Nothing is tracked for memory that is not valid.
AfterCall(g, h, st, ps) ==
  IF ~Valid(h) \/ st # 0 THEN g ELSE [g EXCEPT ![h].params = ps]

\* the parameters of h as the library holds them
Stored(h) == IF Valid(h) THEN grb[h].params ELSE DefaultParams

\* a Model keeps the Env it was built with for as long as it exists
ModelHolds(rec) == [rec EXCEPT !.models = @ + 1]

ModelNewBorrowed(rec) == ModelHolds(rec)

\* Model::new(self.clone(), model) succeeding: the Model holds the clone
ModelNew(rec) == ModelHolds(RcClone(rec))

\* Env::new_model / Env::read_model: encode, checked native call, then
\* Model::new(self.clone(), model); mok is whether Model::new succeeds
BuildModel(op, fn, r, name, st, mok) ==
  /\ r \in Held
  /\ IF ~CStringNew(name).ok
       THEN /\ last' = Op(op, r, <<name>>, Pre(r), <<>>, EncodingError)
            /\ UNCHANGED <<grb, nfree, reps>>
       ELSE LET h == reps[r].ptr
                chk == Checked(fn, h, st)
                shared == RcClone(reps[r])
            IN IF st # 0
                 THEN /\ UNCHANGED <<grb, nfree, reps>>
                      /\ last' = Op(op, r, <<name>>, Pre(r), chk.calls, chk.res)
                 ELSE /\ reps[r].strong < MaxShare
                      /\ IF mok
                           THEN /\ reps' = [reps EXCEPT ![r] = ModelNew(@)]
                                /\ UNCHANGED <<grb, nfree>>
                                /\ last' = Op(op, r, <<name>>, Pre(r), chk.calls, Ok)
                           ELSE /\ DropShare(r, shared)
                                /\ last' = Op(op, r, <<name>>, Pre(r),
                                              chk.calls \o DropCalls(shared), ModelError)

\* Env::new_model(modelname)
NewModel(r, modelname, st, mok) ==
  BuildModel("new_model", "GRBnewmodel", r, modelname, st, mok)

\* Env::read_model(filename)
ReadModel(r, filename, st, mok) ==
  BuildModel("read_model", "GRBreadmodel", r, filename, st, mok)

\* a Model goes out of scope, and with it the Env it holds
DropModel(r) ==
  /\ r \in 1..Len(reps)
  /\ reps[r].models > 0
  /\ LET rec == [reps[r] EXCEPT !.models = @ - 1]
     IN /\ DropShare(r, rec)
        /\ last' = Op("drop_model", r, <<>>, Pre(r), DropCalls(rec), Ok)

\* P::get_param / P::set_param: the native entry points of each family
GetFn(p) ==
  IF p \in IntParams THEN "GRBgetintparam"
  ELSE IF p \in DoubleParams THEN "GRBgetdblparam" ELSE "GRBgetstrparam"

SetFn(p) ==
  IF p \in IntParams THEN "GRBsetintparam"
  ELSE IF p \in DoubleParams THEN "GRBsetdblparam" ELSE "GRBsetstrparam"

\* Env::get(param); nv is what the native getter finds stored
Get(r, p, st, nv) ==
  /\ r \in Held
  /\ LET h == reps[r].ptr
         chk == Checked(GetFn(p), h, st)
         value == IF st = 0 THEN WriteBuf(p, InitBuf(p), nv) ELSE InitBuf(p)
     IN /\ Valid(h) => nv = grb[h].params[p]
        /\ UNCHANGED <<grb, nfree, reps>>
        /\ last' = [Op("get", r, <<>>, Pre(r), chk.calls, chk.res)
                     EXCEPT !.param = p,
                            !.val = IF st = 0 THEN <<GetResult(p, value)>> ELSE <<>>]

\* Env::set(param, value)
Set(r, p, v, st) ==
  /\ r \in Held
  /\ LET h == reps[r].ptr
         raw == ToRawTo(p, v)
         args == IF p \in StringParams THEN <<v>> ELSE <<>>
         chk == Checked(SetFn(p), h, st)
     IN IF ~raw.ok
          THEN /\ last' = [Op("set", r, args, Pre(r), <<>>, Panic)
                            EXCEPT !.param = p, !.arg = <<v>>]
               /\ UNCHANGED <<grb, nfree, reps>>
          ELSE /\ grb' = AfterCall(grb, h, st,
                                   [Stored(h) EXCEPT ![p] = RawStored(p, raw.buf)])
               /\ UNCHANGED nfree
               /\ reps' = IF st = 0
                            THEN [reps EXCEPT ![r].written[p] = <<v>>]
                            ELSE reps
               /\ last' = [Op("set", r, args, Pre(r), chk.calls, chk.res)
                            EXCEPT !.param = p, !.arg = <<v>>]

\* the parameter values a parameter file can hold
ParamFiles ==
  {[p \in ParamIds |-> IF p \in IntParams THEN i
                       ELSE IF p \in DoubleParams THEN d ELSE s] :
     i \in IntVals, d \in DoubleVals, s \in StrVals}

\* Env::read_params(filename); ps are the values the file holds
ReadParams(r, filename, st, ps) ==
  /\ r \in Held
  /\ IF ~CStringNew(filename).ok
       THEN /\ last' = Op("read_params", r, <<filename>>, Pre(r), <<>>,
                          EncodingError)
            /\ UNCHANGED <<grb, nfree, reps>>
       ELSE LET h == reps[r].ptr
                chk == Checked("GRBreadparams", h, st)
            IN /\ grb' = AfterCall(grb, h, st, ps)
               /\ UNCHANGED nfree
               /\ reps' = IF st = 0 THEN [reps EXCEPT ![r].written = NoWritten]
                          ELSE reps
               /\ last' = Op("read_params", r, <<filename>>, Pre(r), chk.calls, chk.res)

\* Env::write_params(filename)
WriteParams(r, filename, st) ==
  /\ r \in Held
  /\ UNCHANGED <<grb, nfree, reps>>
  /\ IF ~CStringNew(filename).ok
       THEN last' = Op("write_params", r, <<filename>>, Pre(r), <<>>,
                       EncodingError)
       ELSE LET chk == Checked("GRBwriteparams", reps[r].ptr, st)
            IN last' = Op("write_params", r, <<filename>>, Pre(r), chk.calls, chk.res)

\* Env::message(message): the encoding is unwrapped, the call is not checked
Message(r, message) ==
  /\ r \in Held
  /\ UNCHANGED <<grb, nfree, reps>>
  /\ IF ~CStringNew(message).ok
       THEN last' = Op("message", r, <<message>>, Pre(r), <<>>, Panic)
       ELSE last' = Op("message", r, <<message>>, Pre(r), <<Call("GRBmsg", reps[r].ptr, 0)>>, Ok)

\* FromRaw::from_raw called from outside Env::new and Env::new_client, on a
\* null pointer or on a handle the library has handed out
FromRawCall(ptr) ==
  /\ IF ptr = Null THEN TRUE ELSE grb[ptr].st # "unused"
  /\ Len(reps) < MaxRecs
  /\ reps' = Append(reps, FromRaw(ptr))
  /\ last' = Op("from_raw", Len(reps) + 1, <<>>, PreNew, <<>>, Ok)
  /\ UNCHANGED <<grb, nfree>>

\* no load call has handed out a handle yet
NoneYet == Unused = Handles

\* ---- Spec: a program that holds one environment, with its clones and
\* ---- Models, and runs every operation on it
Next ==
  \/ \E s \in Names, o \in LoadOutcomes : NoneYet /\ New(s, o[1], o[2])
  \/ \E s, c, w \in Names, o \in LoadOutcomes : NoneYet /\ NewClient(s, c, w, o[1], o[2])
  \/ \E r \in 1..Len(reps) : Clone(r)
  \/ \E r \in 1..Len(reps) : DropEnv(r)
  \/ \E r \in 1..Len(reps), s \in Names, st \in Status, mok \in BOOLEAN :
       NewModel(r, s, st, mok)
  \/ \E r \in 1..Len(reps), s \in Names, st \in Status, mok \in BOOLEAN :
       ReadModel(r, s, st, mok)
  \/ \E r \in 1..Len(reps) : DropModel(r)
  \/ \E r \in 1..Len(reps), p \in ParamIds, st \in Status :
       \E nv \in NativeVals(p) : Get(r, p, st, nv)
  \/ \E r \in 1..Len(reps), p \in ParamIds, st \in Status :
       \E v \in OutVals(p) : Set(r, p, v, st)
  \/ \E r \in 1..Len(reps), s \in Names, st \in Status, ps \in ParamFiles :
       ReadParams(r, s, st, ps)
  \/ \E r \in 1..Len(reps), s \in Names, st \in Status : WriteParams(r, s, st)
  \/ \E r \in 1..Len(reps), s \in Names : Message(r, s)

Spec == Init /\ [][Next]_vars

\* ---- SpecShare: a program that holds several environments and shares
\* ---- each between Env values and Models
NextShare ==
  \/ \E s \in Names, o \in LoadOutcomes : New(s, o[1], o[2])
  \/ \E s, c, w \in Names, o \in LoadOutcomes : NewClient(s, c, w, o[1], o[2])
  \/ \E r \in 1..Len(reps) : Clone(r)
  \/ \E r \in 1..Len(reps) : DropEnv(r)
  \/ \E r \in 1..Len(reps), s \in Names, st \in Status, mok \in BOOLEAN :
       NewModel(r, s, st, mok)
  \/ \E r \in 1..Len(reps), s \in Names, st \in Status, mok \in BOOLEAN :
       ReadModel(r, s, st, mok)
  \/ \E r \in 1..Len(reps) : DropModel(r)

SpecShare == Init /\ [][NextShare]_vars

\* ---- SpecRaw: environments built by Env::new and by outside callers of
\* ---- FromRaw::from_raw
NextRaw ==
  \/ \E s \in Names, o \in LoadOutcomes : New(s, o[1], o[2])
  \/ \E ptr \in Ptrs : FromRawCall(ptr)
  \/ \E r \in 1..Len(reps) : Clone(r)
  \/ \E r \in 1..Len(reps) : DropEnv(r)
  \/ \E r \in 1..Len(reps), p \in ParamIds, st \in Status :
       \E nv \in NativeVals(p) : Get(r, p, st, nv)

SpecRaw == Init /\ [][NextRaw]_vars

\* ======================================================================
\* Claims
\* ======================================================================

Recs == 1..Len(reps)
Holders(r) == reps[r].envs + reps[r].models
Calls == 1..Len(last.calls)
ApiOps == {"new", "new_client", "new_model", "read_model", "get", "set",
           "read_params", "write_params"}
StringOps == {"new", "new_client", "new_model", "read_model", "read_params",
              "write_params"}

\* C1: the handle wrapped by a successful Env::new / Env::new_client is
\* freed at most once; it has been freed exactly when no Env value and no
\* Model holds its owner record any more; and a GRBfreeenv call is issued
\* only by the drop that takes the reference count from one to zero, on the
\* handle of that record, which had not been freed before.
C1_FreedOnceAtLastDrop ==
  /\ \A r \in Recs :
       /\ nfree[reps[r].wrapped] <= 1
       /\ (nfree[reps[r].wrapped] = 1) <=> (Holders(r) = 0)
  /\ \A i \in Calls :
       last.calls[i].fn = "GRBfreeenv" =>
         /\ last.op \in {"drop", "drop_model"}
         /\ last.pre.strong = 1
         /\ last.pre.envs + last.pre.models = 1
         /\ Holders(last.rec) = 0
         /\ last.calls[i].h = reps[last.rec].wrapped
         /\ ~last.calls[i].freed

\* C1 witness: the last Env value of a record that had a clone dropped
\* before is dropped, and the handle has been freed once.
C1_Witness ==
  /\ last.op = "drop"
  /\ last.pre.dropped
  /\ Holders(last.rec) = 0
  /\ nfree[reps[last.rec].wrapped] = 1

\* C2: no native call other than the free itself is issued on a handle that
\* has been freed, every held Env value and Model refers to a handle that is
\* still valid, and an owner record that was released (count zero) never
\* gets a reference or a holder again.
C2_NoUseAfterFree ==
  [][/\ \A i \in 1..Len(last'.calls) :
          last'.calls[i].fn # "GRBfreeenv" => ~last'.calls[i].freed
     /\ \A r \in 1..Len(reps') :
          reps'[r].envs + reps'[r].models > 0 =>
            reps'[r].ptr # Null /\ grb'[reps'[r].ptr].st = "live"
     /\ \A r \in Recs :
          reps[r].strong = 0 =>
            reps'[r].strong = 0 /\ reps'[r].envs = 0 /\ reps'[r].models = 0]_vars

\* C2 witness: after an Env value of the record was dropped, a set through
\* a remaining Env value succeeded on the handle.
C2_Witness ==
  /\ last.op = "set"
  /\ last.res.kind = "Ok"
  /\ last.pre.dropped
  /\ last.calls # <<>>
  /\ ~last.calls[1].freed

\* C3: while a Model built by new_model / read_model exists, the handle of
\* its environment has not been freed, whether or not any Env value is left;
\* a successful new_model / read_model adds one reference to the owner
\* record; and the handle is freed only when no Model and no Env value holds
\* the record.
C3_ModelKeepsEnvAlive ==
  /\ \A r \in Recs :
       /\ reps[r].models > 0 =>
            /\ nfree[reps[r].wrapped] = 0
            /\ reps[r].ptr = reps[r].wrapped
            /\ grb[reps[r].ptr].st = "live"
       /\ nfree[reps[r].wrapped] > 0 => reps[r].models = 0 /\ reps[r].envs = 0
  /\ last.op \in {"new_model", "read_model"} /\ last.res.kind = "Ok" =>
       /\ reps[last.rec].strong = last.pre.strong + 1
       /\ reps[last.rec].models = last.pre.models + 1

\* C3 witness: every Env value of a record has been dropped and a Model
\* still holds it.
C3_Witness ==
  \E r \in Recs :
    /\ reps[r].models > 0
    /\ reps[r].envs = 0
    /\ reps[r].dropped
    /\ last.op = "drop"

C5_EncodingErrorBeforeNativeCall ==
  [][last'.op \in StringOps /\ last'.bad # {} =>
       /\ last'.res = EncodingError
       /\ last'.calls = <<>>
       /\ UNCHANGED <<grb, nfree, reps>>]_vars

\* C5 witness: new_client with a valid log file name and server and a
\* password that holds a terminator byte has returned an EncodingError.
C5_Witness ==
  /\ last.op = "new_client"
  /\ last.bad = {3}
  /\ last.res = EncodingError

\* C6 (the claim as stated): a set of a string parameter whose value holds a
\* terminator byte returns an EncodingError and calls no native setter.
C6_SetReturnsEncodingError ==
  (last.op = "set" /\ last.param \in StringParams /\ last.bad # {}) =>
    /\ last.res.kind = "EncodingError"
    /\ last.calls = <<>>

\* C7: in new, new_client, new_model, read_model, get, set, read_params and
\* write_params, a native call that returns a non-zero status c makes the
\* operation return an ApiError with code c and the diagnostic of that
\* failure, read by GRBgeterrormsg on the same handle as the very next
\* native call; when every call returns zero, the operation returns no
\* ApiError and issues no GRBgeterrormsg.
C7_ErrorTranslation ==
  last.op \in ApiOps =>
    /\ \A i \in Calls :
         last.calls[i].st # 0 =>
           /\ last.res = FromAPI(last.calls[i].st, last.calls[i].st)
           /\ i < Len(last.calls)
           /\ last.calls[i + 1].fn = "GRBgeterrormsg"
           /\ last.calls[i + 1].h = last.calls[i].h
    /\ (\A i \in Calls : last.calls[i].st = 0) =>
         /\ last.res.kind # "ApiError"
         /\ \A i \in Calls : last.calls[i].fn # "GRBgeterrormsg"

\* C7 witness: a set whose native setter returned status 2 has returned the
\* ApiError with code 2.
C7_Witness ==
  /\ last.op = "set"
  /\ last.res.kind = "ApiError"
  /\ last.res.code = 2
  /\ Len(last.calls) = 2

\* C8: new / new_client return an Env exactly when the load call returned
\* zero, the Env then being the only holder of a new owner record around the
\* loaded handle, and otherwise build no owner record; new_model /
\* read_model return a Model exactly when one more Model holds the record,
\* and otherwise leave the record's reference count and holders as they were
\* and its handle live.
C8_AllOrNothing ==
  /\ last.op \in {"new", "new_client"} =>
       /\ last.res.kind = "Ok" <=> (last.calls # <<>> /\ last.calls[1].st = 0)
       /\ last.res.kind = "Ok" =>
            /\ Len(reps) = last.pre.nrecs + 1
            /\ last.rec = Len(reps)
            /\ reps[last.rec] = FromRaw(last.calls[1].h)
            /\ grb[last.calls[1].h].st = "live"
       /\ last.res.kind # "Ok" => Len(reps) = last.pre.nrecs /\ last.rec = 0
  /\ last.op \in {"new_model", "read_model"} =>
       /\ last.res.kind = "Ok" <=> reps[last.rec].models = last.pre.models + 1
       /\ last.res.kind = "Ok" =>
            last.calls # <<>> /\ \A i \in Calls : last.calls[i].st = 0
       /\ last.res.kind # "Ok" =>
            /\ reps[last.rec].models = last.pre.models
            /\ reps[last.rec].strong = last.pre.strong
            /\ reps[last.rec].envs = last.pre.envs
            /\ grb[reps[last.rec].ptr].st = "live"
       /\ Len(reps) = last.pre.nrecs

\* C8 witness: with one environment in existence, a new_client whose load
\* call failed has returned an ApiError.
C8_Witness ==
  /\ last.op = "new_client"
  /\ last.res.kind = "ApiError"
  /\ Len(reps) = 1

\* C9 (the claim as stated): every handle a load call created has exactly
\* one owner record, and once no Env value and no Model is left, every such
\* handle has been freed exactly once.
C9_EveryLoadedHandleOwnedAndFreed ==
  /\ \A h \in Handles :
       grb[h].st # "unused" => Cardinality({r \in Recs : reps[r].wrapped = h}) = 1
  /\ (\A r \in Recs : Holders(r) = 0) =>
       \A h \in Handles : grb[h].st # "unused" => nfree[h] = 1

\* C10 (the claim as stated): the owner record of every Env value that is
\* held, however it was obtained, holds a non-null handle, and a record
\* holds the null sentinel only once it is released.
C10_LiveHandleNonNull ==
  \A r \in Recs :
    /\ reps[r].envs > 0 => reps[r].ptr # Null
    /\ reps[r].ptr = Null => reps[r].strong = 0
====
